---- MODULE Spec2Model ----
(***************************************************************************)
(* Payload normalisers of the cricket dashboard (src/app.py):             *)
(* parse_live_matches, parse_match_live_score, parse_match_scorecard and  *)
(* the live-matches page flow that feeds them from the fetch functions.   *)
(*                                                                         *)
(* A decoded JSON value (what r.json() returns) is a tagged record:       *)
(*   [t |-> "null"], [t |-> "bool", b], [t |-> "int", n],                  *)
(*   [t |-> "float", n]  (n counts tenths: 18.2 is n = 182),               *)
(*   [t |-> "str", s], [t |-> "list", xs], [t |-> "map", kvs]              *)
(* A mapping keeps its entries as a sequence of [k, v] records with        *)
(* pairwise distinct keys, in the dict's iteration (insertion) order.      *)
(***************************************************************************)
EXTENDS Integers, Sequences, FiniteSets, TLC

VARIABLES
    pc,      \* position of the caller: "call" before the parser runs, "done" after;
             \* in the page flow, the statement of the script about to run
    call,    \* the function under call
    data,    \* the decoded tree handed to the parser (never assigned by a parser)
    now,     \* what datetime.now() read during the call
    result,  \* what the call returned, or that it raised
    page     \* the live-matches page: banners shown, parser invocations, loop state

vars == <<pc, call, data, now, result, page>>

----------------------------------------------------------------------------
(* JSON values *)

Null == [t |-> "null"]
Bool(b) == [t |-> "bool", b |-> b]
Num(n) == [t |-> "int", n |-> n]
Flt(n) == [t |-> "float", n |-> n]
Str(s) == [t |-> "str", s |-> s]
List(xs) == [t |-> "list", xs |-> xs]
Map(kvs) == [t |-> "map", kvs |-> kvs]
KV(k, v) == [k |-> k, v |-> v]

EmptyMap == Map(<<>>)
EmptyList == List(<<>>)
EmptyStr == Str("")

\* isinstance(x, dict) / isinstance(x, list)
IsDict(x) == x.t = "map"
IsList(x) == x.t = "list"

\* Python truth value of a decoded JSON value (bool(x)).
Truthy(x) ==
    CASE x.t = "null" -> FALSE
      [] x.t = "bool" -> x.b
      [] x.t = "int" -> x.n # 0
      [] x.t = "float" -> x.n # 0
      [] x.t = "str" -> x.s # ""
      [] x.t = "list" -> x.xs # <<>>
      [] x.t = "map" -> x.kvs # <<>>

HasKey(m, k) == \E i \in 1..Len(m.kvs) : m.kvs[i].k = k

\* dict.get(k, dflt) on a mapping m
Get(m, k, dflt) ==
    IF HasKey(m, k)
    THEN m.kvs[CHOOSE i \in 1..Len(m.kvs) : m.kvs[i].k = k].v
    ELSE dflt

\* x.get(k, dflt) where x may be any value: the attribute lookup raises
\* AttributeError unless x is a dict.
GetRaises(x) == ~IsDict(x)

\* dict.values() in iteration order
Values(m) == [i \in 1..Len(m.kvs) |-> m.kvs[i].v]

----------------------------------------------------------------------------
(* str() / repr() as used by the f-strings *)

RECURSIVE PyRepr(_)
RECURSIVE ReprItems(_)
RECURSIVE ReprEntries(_)

ReprItems(xs) ==
    IF xs = <<>> THEN ""
    ELSE PyRepr(Head(xs)) \o (IF Len(xs) > 1 THEN ", " ELSE "") \o ReprItems(Tail(xs))

ReprEntries(kvs) ==
    IF kvs = <<>> THEN ""
    ELSE "'" \o Head(kvs).k \o "': " \o PyRepr(Head(kvs).v)
         \o (IF Len(kvs) > 1 THEN ", " ELSE "") \o ReprEntries(Tail(kvs))

PyRepr(x) ==
    CASE x.t = "null" -> "None"
      [] x.t = "bool" -> IF x.b THEN "True" ELSE "False"
      [] x.t = "int" -> ToString(x.n)
      [] x.t = "float" -> ToString(x.n \div 10) \o "." \o ToString(x.n % 10)
      [] x.t = "str" -> "'" \o x.s \o "'"
      [] x.t = "list" -> "[" \o ReprItems(x.xs) \o "]"
      [] x.t = "map" -> "{" \o ReprEntries(x.kvs) \o "}"

\* format(x, "") inside an f-string: str(x)
PyStr(x) == IF x.t = "str" THEN x.s ELSE PyRepr(x)

----------------------------------------------------------------------------
(* parse_live_matches *)

\* a or b
PyOr(a, b) == IF Truthy(a) THEN a ELSE b

\* outcome of a call of parse_live_matches: the list returned, or an exception
Returned(rows) == [raised |-> FALSE, rows |-> rows]
Raised == [raised |-> TRUE, rows |-> <<>>]

\* obj.get("matchInfo") and obj.get("matchInfo", {}).get("matchId")
\* raises when matchInfo is truthy and has no .get
MatchCondRaises(obj) ==
    LET mi == Get(obj, "matchInfo", Null)
    IN  Truthy(mi) /\ GetRaises(mi)

\* only matchInfo is tested, its matchId is not
MatchCondAnyMatchInfo(obj) ==
    LET mi == Get(obj, "matchInfo", Null)
    IN  Truthy(mi)

MatchCond(obj) ==
    LET mi == Get(obj, "matchInfo", Null)
    IN  Truthy(mi) /\ Truthy(Get(Get(obj, "matchInfo", EmptyMap), "matchId", Null))

\* building match_data raises when team1, team2 or venueInfo has no .get
MatchDataRaises(obj) ==
    LET mi == Get(obj, "matchInfo", EmptyMap)
    IN  \/ GetRaises(Get(mi, "team1", EmptyMap))
        \/ GetRaises(Get(mi, "team2", EmptyMap))
        \/ GetRaises(Get(mi, "venueInfo", EmptyMap))

MatchData(obj) ==
    LET mi == Get(obj, "matchInfo", EmptyMap)
        team1 == Get(mi, "team1", EmptyMap)
        team2 == Get(mi, "team2", EmptyMap)
    IN  [ match_id |-> Get(mi, "matchId", Null),
          team1 |-> Get(team1, "teamSName", EmptyStr),
          team2 |-> Get(team2, "teamSName", EmptyStr),
          teams |-> Str(PyStr(Get(team1, "teamSName", EmptyStr)) \o " vs "
                        \o PyStr(Get(team2, "teamSName", EmptyStr))),
          format |-> PyOr(Get(mi, "matchFormat", Null), Get(mi, "mFormat", EmptyStr)),
          venue |-> PyOr(Get(Get(mi, "venueInfo", EmptyMap), "ground", EmptyStr),
                         Get(mi, "venue", EmptyStr)),
          city |-> Get(Get(mi, "venueInfo", EmptyMap), "city", EmptyStr),
          status |-> Get(obj, "statusText", EmptyStr),
          start_time |-> Get(mi, "startDate", Null),
          series |-> Get(mi, "seriesName", EmptyStr),
          match_desc |-> Get(mi, "matchDesc", EmptyStr),
          state |-> Get(mi, "state", EmptyStr) ]

RECURSIVE extract_matches_recursive(_)
RECURSIVE ExtendEach(_)

\* extracted.extend(extract_matches_recursive(x)) for each x of xs, in order
ExtendEach(xs) ==
    IF xs = <<>> THEN Returned(<<>>)
    ELSE LET h == extract_matches_recursive(Head(xs))
         IN  IF h.raised THEN Raised
             ELSE LET r == ExtendEach(Tail(xs))
                  IN  IF r.raised THEN Raised ELSE Returned(h.rows \o r.rows)

\* the node's own record appended after its children's records
extract_matches_post_order(obj) ==
    IF IsDict(obj)
    THEN IF MatchCondRaises(obj) THEN Raised
         ELSE LET own == IF MatchCond(obj) THEN <<MatchData(obj)>> ELSE <<>>
                  sub == ExtendEach(SelectSeq(Values(obj),
                                              LAMBDA v : IsDict(v) \/ IsList(v)))
              IN  IF MatchCond(obj) /\ MatchDataRaises(obj) THEN Raised
                  ELSE IF sub.raised THEN Raised
                  ELSE Returned(sub.rows \o own)
    ELSE IF IsList(obj) THEN ExtendEach(obj.xs)
    ELSE Returned(<<>>)

extract_matches_recursive(obj) ==
    IF IsDict(obj)
    THEN IF MatchCondRaises(obj) THEN Raised
         ELSE LET own == IF MatchCond(obj) THEN <<MatchData(obj)>> ELSE <<>>
                  sub == ExtendEach(SelectSeq(Values(obj),
                                              LAMBDA v : IsDict(v) \/ IsList(v)))
              IN  IF MatchCond(obj) /\ MatchDataRaises(obj) THEN Raised
                  ELSE IF sub.raised THEN Raised
                  ELSE Returned(own \o sub.rows)
    ELSE IF IsList(obj) THEN ExtendEach(obj.xs)
    ELSE Returned(<<>>)

parse_live_matches(d) ==
    IF ~IsDict(d) THEN Returned(<<>>) ELSE extract_matches_recursive(d)

----------------------------------------------------------------------------
(* parse_match_live_score *)

\* outcome of a call of parse_match_live_score: None, a live_score dict, or an
\* exception
ScoreRaised == [raised |-> TRUE, none |-> FALSE]
ScoreNone == [raised |-> FALSE, none |-> TRUE]
ScoreReturned(r) == [raised |-> FALSE, none |-> FALSE, score |-> r]

Pad2(n) == IF n < 10 THEN "0" \o ToString(n) ELSE ToString(n)

\* datetime.strftime("%Y-%m-%d %H:%M:%S")
Strftime(t) ==
    ToString(t.year) \o "-" \o Pad2(t.month) \o "-" \o Pad2(t.day) \o " "
    \o Pad2(t.hour) \o ":" \o Pad2(t.minute) \o ":" \o Pad2(t.second)

\* len(x): TypeError for None, bool and numbers
LenRaises(x) == x.t \in {"null", "bool", "int", "float"}
PyLen(x) ==
    CASE x.t = "list" -> Len(x.xs)
      [] x.t = "str" -> Len(x.s)
      [] x.t = "map" -> Len(x.kvs)
      [] OTHER -> 0

\* innings_scores[i].get(...): a dict has no integer key (KeyError), an item of
\* a str has no .get
InningsEntryRaises(scores, i) == ~(IsList(scores) /\ IsDict(scores.xs[i + 1]))

\* f"{e.get('runs', 0)}/{e.get('wickets', 0)} ({e.get('overs', 0)} ov)"
ScoreString(e) ==
    Str(PyStr(Get(e, "runs", Num(0))) \o "/" \o PyStr(Get(e, "wickets", Num(0)))
        \o " (" \o PyStr(Get(e, "overs", Num(0))) \o " ov)")

\* f"Over {over_summary.get('overNum', '')}: {over_summary.get('runs', 0)} runs"
OverString(os) ==
    Str("Over " \o PyStr(Get(os, "overNum", EmptyStr)) \o ": "
        \o PyStr(Get(os, "runs", Num(0))) \o " runs")

\* the block under "if miniscore:" raises
MiniscoreRaises(ms) ==
    /\ Truthy(ms)
    /\ \/ GetRaises(ms)
       \/ LET scores == Get(ms, "inningsScores", EmptyList)
              os == Get(ms, "overSummary", EmptyMap)
          IN  \/ LenRaises(scores)
              \/ PyLen(scores) >= 1 /\ InningsEntryRaises(scores, 0)
              \/ PyLen(scores) >= 2 /\ InningsEntryRaises(scores, 1)
              \/ Truthy(os) /\ GetRaises(os)

Team1Score(ms) ==
    LET scores == Get(ms, "inningsScores", EmptyList)
    IN  IF Truthy(ms) /\ PyLen(scores) >= 1 THEN ScoreString(scores.xs[1]) ELSE EmptyStr

\* entry 0 formatted for both teams
Team2ScoreSameEntry(ms) ==
    LET scores == Get(ms, "inningsScores", EmptyList)
    IN  IF Truthy(ms) /\ PyLen(scores) >= 1 THEN ScoreString(scores.xs[1]) ELSE EmptyStr

Team2Score(ms) ==
    LET scores == Get(ms, "inningsScores", EmptyList)
    IN  IF Truthy(ms) /\ PyLen(scores) >= 2 THEN ScoreString(scores.xs[2]) ELSE EmptyStr

\* the over line written for every mapping, an empty one included
CurrentOverUnguarded(ms) ==
    LET os == Get(ms, "overSummary", EmptyMap)
    IN  IF Truthy(ms) /\ IsDict(os) THEN OverString(os) ELSE EmptyStr

CurrentOver(ms) ==
    LET os == Get(ms, "overSummary", EmptyMap)
    IN  IF Truthy(ms) /\ Truthy(os) THEN OverString(os) ELSE EmptyStr

\* the venue left empty when ground and city are both empty
VenueStringBlankWhenEmpty(mi) ==
    LET ground == PyStr(Get(Get(mi, "venueInfo", EmptyMap), "ground", EmptyStr))
        city == PyStr(Get(Get(mi, "venueInfo", EmptyMap), "city", EmptyStr))
    IN  IF ground = "" /\ city = "" THEN EmptyStr ELSE Str(ground \o " - " \o city)

\* f"{ground} - {city}"
VenueString(mi) ==
    Str(PyStr(Get(Get(mi, "venueInfo", EmptyMap), "ground", EmptyStr)) \o " - "
        \o PyStr(Get(Get(mi, "venueInfo", EmptyMap), "city", EmptyStr)))

\* the navigation of the fixed paths and the dict literal raise
HeaderRaises(d) ==
    LET mh == Get(d, "matchHeader", EmptyMap)
    IN  \/ GetRaises(mh)
        \/ LET mi == Get(mh, "matchInfo", EmptyMap)
           IN  \/ GetRaises(mi)
               \/ GetRaises(Get(mi, "team1", EmptyMap))
               \/ GetRaises(Get(mi, "team2", EmptyMap))
               \/ GetRaises(Get(mi, "tossResults", EmptyMap))
               \/ GetRaises(Get(mi, "venueInfo", EmptyMap))
               \/ GetRaises(Get(mh, "result", EmptyMap))

LiveScore(d, t) ==
    LET mh == Get(d, "matchHeader", EmptyMap)
        mi == Get(mh, "matchInfo", EmptyMap)
        ms == Get(d, "miniscore", EmptyMap)
    IN  [ match_id |-> Get(mi, "matchId", Null),
          team1 |-> Get(Get(mi, "team1", EmptyMap), "teamSName", EmptyStr),
          team2 |-> Get(Get(mi, "team2", EmptyMap), "teamSName", EmptyStr),
          team1_score |-> Team1Score(ms),
          team2_score |-> Team2Score(ms),
          current_over |-> CurrentOver(ms),
          status |-> Get(mh, "status", EmptyStr),
          state |-> Get(mh, "state", EmptyStr),
          toss |-> Get(Get(mi, "tossResults", EmptyMap), "tossWinnerName", EmptyStr),
          venue |-> VenueString(mi),
          series |-> Get(mi, "seriesName", EmptyStr),
          match_format |-> Get(mi, "matchFormat", EmptyStr),
          result |-> Get(Get(mh, "result", EmptyMap), "resultText", EmptyStr),
          last_updated |-> Str(Strftime(t)) ]

parse_match_live_score(d, t) ==
    IF ~IsDict(d) THEN ScoreNone
    ELSE IF HeaderRaises(d) \/ MiniscoreRaises(Get(d, "miniscore", EmptyMap))
    THEN ScoreRaised
    ELSE ScoreReturned(LiveScore(d, t))

----------------------------------------------------------------------------
(* parse_match_scorecard *)

\* outcome of a call of parse_match_scorecard: the pair of lists, or an exception
CardRaised == [raised |-> TRUE, batting |-> <<>>, bowling |-> <<>>]
CardReturned(bat, bowl) == [raised |-> FALSE, batting |-> bat, bowling |-> bowl]

\* "for x in v": TypeError for None, bool and numbers; a dict yields its keys,
\* a str its characters
IterRaises(v) == v.t \in {"null", "bool", "int", "float"}
PyIter(v) ==
    CASE v.t = "list" -> v.xs
      [] v.t = "map" -> [i \in 1..Len(v.kvs) |-> Str(v.kvs[i].k)]
      [] v.t = "str" -> [i \in 1..Len(v.s) |-> Str(SubSeq(v.s, i, i))]
      [] OTHER -> <<>>

Batsmen(innings) == Get(Get(innings, "batTeamDetails", EmptyMap), "batsmenData", EmptyMap)
Bowlers(innings) == Get(Get(innings, "bowlTeamDetails", EmptyMap), "bowlersData", EmptyMap)

\* x.items() raises unless x is a dict; each player_data.get raises unless the
\* entry is a dict
PlayersRaise(players) ==
    \/ ~IsDict(players)
    \/ \E i \in 1..Len(players.kvs) : GetRaises(players.kvs[i].v)

\* one pass of the loop body raises
InningsRaises(innings) ==
    \/ GetRaises(innings)
    \/ GetRaises(Get(innings, "batTeamDetails", EmptyMap))
    \/ PlayersRaise(Batsmen(innings))
    \/ GetRaises(Get(innings, "bowlTeamDetails", EmptyMap))
    \/ PlayersRaise(Bowlers(innings))

\* outDesc read without the "not out" default
BattingRowNoDefault(d, innings, player_data) ==
    [ match_id |-> Get(d, "matchId", EmptyStr),
      innings |-> Get(innings, "inningsId", Num(0)),
      team |-> Get(innings, "batTeamName", EmptyStr),
      player |-> Get(player_data, "name", EmptyStr),
      runs |-> Get(player_data, "runs", Num(0)),
      balls |-> Get(player_data, "balls", Num(0)),
      fours |-> Get(player_data, "fours", Num(0)),
      sixes |-> Get(player_data, "sixes", Num(0)),
      strike_rate |-> Get(player_data, "strikeRate", Flt(0)),
      status |-> Get(player_data, "outDesc", EmptyStr) ]

BattingRow(d, innings, player_data) ==
    [ match_id |-> Get(d, "matchId", EmptyStr),
      innings |-> Get(innings, "inningsId", Num(0)),
      team |-> Get(innings, "batTeamName", EmptyStr),
      player |-> Get(player_data, "name", EmptyStr),
      runs |-> Get(player_data, "runs", Num(0)),
      balls |-> Get(player_data, "balls", Num(0)),
      fours |-> Get(player_data, "fours", Num(0)),
      sixes |-> Get(player_data, "sixes", Num(0)),
      strike_rate |-> Get(player_data, "strikeRate", Flt(0)),
      status |-> Get(player_data, "outDesc", Str("not out")) ]

BowlingRow(d, innings, player_data) ==
    [ match_id |-> Get(d, "matchId", EmptyStr),
      innings |-> Get(innings, "inningsId", Num(0)),
      team |-> Get(innings, "bowlTeamName", EmptyStr),
      player |-> Get(player_data, "name", EmptyStr),
      overs |-> Get(player_data, "overs", Flt(0)),
      maidens |-> Get(player_data, "maidens", Num(0)),
      runs |-> Get(player_data, "runs", Num(0)),
      wickets |-> Get(player_data, "wickets", Num(0)),
      economy |-> Get(player_data, "economy", Flt(0)),
      wides |-> Get(player_data, "wides", Num(0)),
      noballs |-> Get(player_data, "noBalls", Num(0)) ]

\* the batsmen taken in sorted-by-latest order instead of items() order
BattingRowsReversed(d, innings) ==
    LET n == Len(Batsmen(innings).kvs)
    IN  [i \in 1..n |-> BattingRow(d, innings, Batsmen(innings).kvs[n + 1 - i].v)]

\* the rows one innings appends, in batsmen.items() / bowlers.items() order
BattingRows(d, innings) ==
    [i \in 1..Len(Batsmen(innings).kvs) |-> BattingRow(d, innings, Batsmen(innings).kvs[i].v)]

BowlingRows(d, innings) ==
    [i \in 1..Len(Bowlers(innings).kvs) |-> BowlingRow(d, innings, Bowlers(innings).kvs[i].v)]

\* "for innings in scorecard": the rows appended so far are bat, bowl
RECURSIVE ForInnings(_, _, _, _)
ForInnings(d, rest, bat, bowl) ==
    IF rest = <<>> THEN CardReturned(bat, bowl)
    ELSE IF InningsRaises(Head(rest)) THEN CardRaised
    ELSE ForInnings(d, Tail(rest), bat \o BattingRows(d, Head(rest)),
                    bowl \o BowlingRows(d, Head(rest)))

\* scoreCard read without the [] default
parse_match_scorecard_no_default(d) ==
    IF ~IsDict(d) THEN CardReturned(<<>>, <<>>)
    ELSE LET scorecard == Get(d, "scoreCard", Null)
         IN  IF IterRaises(scorecard) THEN CardRaised
             ELSE ForInnings(d, PyIter(scorecard), <<>>, <<>>)

parse_match_scorecard(d) ==
    IF ~IsDict(d) THEN CardReturned(<<>>, <<>>)
    ELSE LET scorecard == Get(d, "scoreCard", EmptyList)
         IN  IF IterRaises(scorecard) THEN CardRaised
             ELSE ForInnings(d, PyIter(scorecard), <<>>, <<>>)

----------------------------------------------------------------------------
(* Input trees for parse_live_matches *)

MaxLen == 2      \* longest sequence of leaf nodes in an input tree
MaxDepth == 2    \* wrappers nested around a sequence of leaf nodes

SeqsUpTo(S, n) == UNION {[1..k -> S] : k \in 0..n}

TeamIND == Map(<<KV("teamSName", Str("IND"))>>)
TeamAUS == Map(<<KV("teamSName", Str("AUS"))>>)

\* optional entry of a mapping: <<>> when the key is missing
Opt(k, vs) == {<<>>} \cup {<<KV(k, v)>> : v \in vs}

\* matchInfo sub-mappings: matchId missing, null, 0 or 7; team1 missing or null
MatchInfos ==
    {Map(id \o t1) : id \in Opt("matchId", {Null, Num(0), Num(7)}),
                     t1 \in Opt("team1", {Null})}
    \cup {Map(<<KV("matchId", Num(8)), KV("team1", TeamIND), KV("team2", TeamAUS),
                KV("mFormat", Str("T20")), KV("venue", Str("MCG")),
                KV("venueInfo", Map(<<KV("city", Str("Melbourne"))>>))>>)}

\* leaf nodes: a mapping that carries matchInfo (a mapping, or a scalar in its
\* place), the empty mapping, a scalar
LiveLeaves ==
    {Map(<<KV("matchInfo", mi), KV("statusText", Str("Live"))>>) : mi \in MatchInfos}
    \cup {Map(<<KV("matchInfo", Str("n/a"))>>), EmptyMap, Str("x")}

\* what can surround a subtree: a mapping without matchInfo, a sequence with a
\* scalar sibling, a mapping that is itself a match and lists the subtree
\* first, a mapping that lists a match ahead of the subtree
WrapKinds == {"mapping", "sequence", "match", "siblings"}

LiveWrap(kind, s) ==
    CASE kind = "mapping" -> Map(<<KV("matches", s)>>)
      [] kind = "sequence" -> List(<<Null, s>>)
      [] kind = "siblings" ->
            Map(<<KV("recent", Map(<<KV("matchInfo", Map(<<KV("matchId", Num(5))>>))>>)),
                  KV("live", s)>>)
      [] kind = "match" ->
            Map(<<KV("seriesMatches", s), KV("matchInfo", Map(<<KV("matchId", Num(9))>>))>>)

\* the trees with d wrappers around a leaf or a sequence of leaves
RECURSIVE LiveLevel(_)
LiveLevel(d) ==
    IF d = 0
    THEN LiveLeaves \cup {List(xs) : xs \in SeqsUpTo(LiveLeaves, MaxLen)}
    ELSE {LiveWrap(kind, s) : kind \in WrapKinds, s \in LiveLevel(d - 1)}

----------------------------------------------------------------------------
(* Input trees for parse_match_live_score *)

MaxInningsScores == 2    \* longest miniscore.inningsScores sequence

\* the innings entry {"runs": 120, "wickets": 3, "overs": 18.2}
SpecExampleEntry ==
    Map(<<KV("runs", Num(120)), KV("wickets", Num(3)), KV("overs", Flt(182))>>)

ScoreEntries ==
    { EmptyMap,
      SpecExampleEntry,
      Map(<<KV("runs", Null), KV("overs", Num(20))>>),
      Null }

InningsScoresValues ==
    {List(xs) : xs \in SeqsUpTo(ScoreEntries, MaxInningsScores)} \cup {Null, Str("ab")}

OverSummaryValues ==
    { Null, EmptyMap, Str("x"),
      Map(<<KV("overNum", Num(14)), KV("runs", Num(9))>>),
      Map(<<KV("runs", Num(4))>>) }

Miniscores ==
    {Map(sc \o os) : sc \in Opt("inningsScores", InningsScoresValues),
                     os \in Opt("overSummary", OverSummaryValues)}
    \cup {Null, Num(5)}

FullHeader ==
    Map(<<KV("matchInfo",
             Map(<<KV("matchId", Num(8)), KV("team1", TeamIND), KV("team2", TeamAUS),
                   KV("tossResults", Map(<<KV("tossWinnerName", Str("India"))>>)),
                   KV("venueInfo", Map(<<KV("ground", Str("MCG")),
                                         KV("city", Str("Melbourne"))>>)),
                   KV("seriesName", Str("BGT")), KV("matchFormat", Str("TEST"))>>)),
          KV("status", Str("Day 1")), KV("state", Str("In Progress")),
          KV("result", Map(<<KV("resultText", Str("India won"))>>))>>)

MatchHeaders ==
    { Null, EmptyMap, FullHeader,
      Map(<<KV("matchInfo", Null)>>),
      Map(<<KV("matchInfo", Map(<<KV("venueInfo", Map(<<KV("ground", Str("MCG"))>>))>>)),
            KV("result", Str("tie"))>>) }

DetailTrees ==
    {Map(h \o m) : h \in Opt("matchHeader", MatchHeaders), m \in Opt("miniscore", Miniscores)}
    \cup {Null, Str("not a mapping"), EmptyList, Num(5)}

\* readings of the wall clock
Clock ==
    {[year |-> 2024, month |-> 3, day |-> 9, hour |-> 7, minute |-> 5, second |-> sec] :
        sec \in {8, 42}}

----------------------------------------------------------------------------
(* Input trees for parse_match_scorecard *)

MaxPlayers == 2    \* most entries of a batsmenData mapping
MaxInnings == 2    \* longest scoreCard sequence

BatsmanEntries ==
    { Map(<<KV("name", Str("Kohli"))>>),
      Map(<<KV("name", Str("Rohit")), KV("runs", Num(45)), KV("balls", Num(30)),
            KV("fours", Num(6)), KV("sixes", Num(1)), KV("strikeRate", Flt(1500)),
            KV("outDesc", Str("b Starc"))>>),
      Map(<<KV("name", Str("Gill")), KV("runs", Num(0)), KV("outDesc", Null)>>) }

\* a player mapping: entry i sits under the opaque key prefix + i
PlayerMap(prefix, entries) ==
    Map([i \in 1..Len(entries) |-> KV(prefix \o ToString(i), entries[i])])

BatsmenValues ==
    {PlayerMap("bat_", es) : es \in SeqsUpTo(BatsmanEntries, MaxPlayers)}
    \cup {EmptyList, PlayerMap("bat_", <<Null>>)}

TwoBowlers ==
    PlayerMap("bowl_",
              << Map(<<KV("name", Str("Starc")), KV("overs", Flt(40)), KV("maidens", Num(1)),
                       KV("runs", Num(22)), KV("wickets", Num(2)), KV("economy", Flt(55)),
                       KV("wides", Num(1)), KV("noBalls", Num(2))>>),
                 Map(<<KV("name", Str("Cummins"))>>) >>)

\* one innings with every choice of inningsId, batsmenData and bowlersData
InningsRich ==
    { Map(id \o <<KV("batTeamName", Str("IND")), KV("bowlTeamName", Str("AUS")),
                  KV("batTeamDetails", Map(<<KV("batsmenData", bd)>>))>> \o bowl) :
        id \in Opt("inningsId", {Num(1), Num(2)}),
        bd \in BatsmenValues,
        bowl \in Opt("bowlTeamDetails", {Map(<<KV("bowlersData", TwoBowlers)>>)}) }

\* the innings that make up longer scoreCard sequences
InningsFew ==
    { Map(<<KV("inningsId", Num(2)), KV("batTeamName", Str("IND")),
            KV("bowlTeamName", Str("AUS")),
            KV("batTeamDetails",
               Map(<<KV("batsmenData",
                        PlayerMap("bat_", << Map(<<KV("name", Str("Rohit")),
                                                   KV("outDesc", Str("b Starc"))>>),
                                             Map(<<KV("name", Str("Kohli"))>>) >>))>>)),
            KV("bowlTeamDetails", Map(<<KV("bowlersData", TwoBowlers)>>))>>),
      Map(<<KV("inningsId", Num(1)), KV("batTeamName", Str("AUS")),
            KV("batTeamDetails",
               Map(<<KV("batsmenData",
                        PlayerMap("bat_", << Map(<<KV("name", Str("Smith"))>>) >>))>>))>>),
      Map(<<KV("battingTeamDetails",
               Map(<<KV("batsmenData",
                        PlayerMap("bat_", << Map(<<KV("name", Str("Head"))>>) >>))>>)),
            KV("bowlingTeamDetails", Map(<<KV("bowlersData", TwoBowlers)>>))>>),
      EmptyMap,
      Null }

ScoreCardValues ==
    {List(<<i>>) : i \in InningsRich}
    \cup {List(xs) : xs \in SeqsUpTo(InningsFew, MaxInnings)}
    \cup {Null, EmptyStr, Str("ab"), EmptyMap, Map(<<KV("1", EmptyMap)>>)}

CardTrees ==
    {Map(id \o sc) : id \in Opt("matchId", {Num(8)}), sc \in Opt("scoreCard", ScoreCardValues)}
    \cup {Null, Str("not a mapping"), EmptyList}

----------------------------------------------------------------------------
(* Calls of the parsers on one input each *)

NoPage == [shown |-> {}, invoked |-> {}]
NotCalled == [raised |-> FALSE]
NoClock == [year |-> 0, month |-> 0, day |-> 0, hour |-> 0, minute |-> 0, second |-> 0]

InitCall(fn, inputs) ==
    /\ pc = "call"
    /\ call = fn
    /\ data \in inputs
    /\ now = NoClock
    /\ result = NotCalled
    /\ page = NoPage

InitLive == \E d \in 0..MaxDepth : InitCall("parse_live_matches", LiveLevel(d))
InitScore == InitCall("parse_match_live_score", DetailTrees)
InitCard == InitCall("parse_match_scorecard", CardTrees)

ParseLiveMatches ==
    /\ pc = "call"
    /\ call = "parse_live_matches"
    /\ result' = parse_live_matches(data)
    /\ pc' = "done"
    /\ UNCHANGED <<call, data, now, page>>

\* datetime.now() is read while the dict literal is built
ParseMatchLiveScore ==
    /\ pc = "call"
    /\ call = "parse_match_live_score"
    /\ \E t \in Clock :
         /\ now' = t
         /\ result' = parse_match_live_score(data, t)
    /\ pc' = "done"
    /\ UNCHANGED <<call, data, page>>

ParseMatchScorecard ==
    /\ pc = "call"
    /\ call = "parse_match_scorecard"
    /\ result' = parse_match_scorecard(data)
    /\ pc' = "done"
    /\ UNCHANGED <<call, data, now, page>>

Init == InitLive \/ InitScore \/ InitCard

Next == ParseLiveMatches \/ ParseMatchLiveScore \/ ParseMatchScorecard

Spec == Init /\ [][Next]_vars

----------------------------------------------------------------------------
(* The live-matches page: one run of the script per rerun *)

\* what str(e) can read for an exception the fetch functions catch
ErrorMessages == {"", "Read timed out."}

\* return {"error": str(e)}
ErrorSentinel(msg) == Map(<<KV("error", Str(msg))>>)

\* isinstance(x, dict) and x.get("error")
IsErrorResult(x) == IsDict(x) /\ Truthy(Get(x, "error", Null))

OneMatch(id) == Map(<<KV("matchInfo", Map(<<KV("matchId", Num(id))>>))>>)

\* what r.json() can hand back for the three endpoints
LiveResponses ==
    { EmptyMap, Null,
      Map(<<KV("typeMatches", List(<<OneMatch(7)>>))>>),
      Map(<<KV("typeMatches", List(<<OneMatch(7), OneMatch(8)>>))>>),
      Map(<<KV("typeMatches", List(<<OneMatch(7), Map(<<KV("matchInfo", Str("n/a"))>>)>>))>>) }

DetailResponses ==
    { EmptyMap, Null,
      Map(<<KV("matchHeader", FullHeader),
            KV("miniscore", Map(<<KV("inningsScores", List(<<SpecExampleEntry>>))>>))>>),
      Map(<<KV("matchHeader", Null)>>) }

CardResponses ==
    { EmptyMap,
      Map(<<KV("scoreCard", List(<<
          Map(<<KV("batTeamDetails",
                   Map(<<KV("batsmenData",
                            PlayerMap("bat_", <<Map(<<KV("name", Str("Kohli"))>>)>>))>>))>>)>>))>>),
      Map(<<KV("scoreCard", Null)>>) }

InitPage ==
    /\ pc = "fetch_live"
    /\ call = "page"
    /\ data = Null
    /\ now = NoClock
    /\ result = NotCalled
    /\ page \in [show_detailed : BOOLEAN, matches : {<<>>}, idx : {0},
                 failed : {FALSE}, shown : {{}}, invoked : {{}}]

\* a fetch function returns: r.json(), or the sentinel built in its except
\* branch; page.failed records which
Fetched(fn, responses, next) ==
    /\ call' = fn
    /\ pc' = next
    /\ \/ \E r \in responses :
            /\ data' = r
            /\ page' = [page EXCEPT !.failed = FALSE]
       \/ \E msg \in ErrorMessages :
            /\ data' = ErrorSentinel(msg)
            /\ page' = [page EXCEPT !.failed = TRUE]
    /\ UNCHANGED <<now, result>>

\* a parser is entered on data
Invoked(fn) == [fn |-> fn, failed |-> page.failed]

\* the script moves on to the next match of the loop, or ends
AfterMatch == IF page.idx < Len(page.matches) THEN "match" ELSE "done"
NextIdx == IF page.idx < Len(page.matches) THEN page.idx + 1 ELSE page.idx

CurrentMatch == page.matches[page.idx]

FetchLiveMatches ==
    /\ pc = "fetch_live"
    /\ Fetched("fetch_live_matches", LiveResponses, "live_fetched")

ShowApiError ==
    /\ pc = "live_fetched"
    /\ IsErrorResult(data)
    /\ page' = [page EXCEPT !.shown = @ \cup {"api_error"}]
    /\ pc' = "done"
    /\ UNCHANGED <<call, data, now, result>>

ParseLivePage ==
    /\ pc = "live_fetched"
    /\ ~IsErrorResult(data)
    /\ LET r == parse_live_matches(data)
       IN  /\ result' = r
           /\ call' = "parse_live_matches"
           /\ IF r.raised
              THEN /\ pc' = "crashed"
                   /\ page' = [page EXCEPT !.invoked = @ \cup {Invoked("parse_live_matches")}]
              ELSE IF ~Truthy(List(r.rows))
              THEN /\ pc' = "done"
                   /\ page' = [page EXCEPT
                                  !.invoked = @ \cup {Invoked("parse_live_matches")},
                                  !.shown = @ \cup {"no_matches"}]
              ELSE /\ pc' = "match"
                   /\ page' = [page EXCEPT
                                  !.invoked = @ \cup {Invoked("parse_live_matches")},
                                  !.matches = r.rows, !.idx = 1]
    /\ UNCHANGED <<data, now>>

\* if match['match_id']: fetch_match_details(match['match_id'])
MatchDetails ==
    /\ pc = "match"
    /\ IF Truthy(CurrentMatch.match_id)
       THEN Fetched("fetch_match_details", DetailResponses, "details_fetched")
       ELSE /\ pc' = "scorecard"
            /\ UNCHANGED <<call, data, now, result, page>>

ParseScorePage ==
    /\ pc = "details_fetched"
    /\ ~IsErrorResult(data)
    /\ \E t \in Clock :
         /\ now' = t
         /\ result' = parse_match_live_score(data, t)
    /\ call' = "parse_match_live_score"
    /\ pc' = IF result'.raised THEN "crashed" ELSE "scorecard"
    /\ page' = [page EXCEPT !.invoked = @ \cup {Invoked("parse_match_live_score")}]
    /\ UNCHANGED data

WarnScores ==
    /\ pc = "details_fetched"
    /\ IsErrorResult(data)
    /\ page' = [page EXCEPT !.shown = @ \cup {"scores_warning"}]
    /\ pc' = "scorecard"
    /\ UNCHANGED <<call, data, now, result>>

\* if show_detailed and match['match_id']: fetch_match_scorecard(...)
MatchScorecard ==
    /\ pc = "scorecard"
    /\ IF page.show_detailed /\ Truthy(CurrentMatch.match_id)
       THEN Fetched("fetch_match_scorecard", CardResponses, "scorecard_fetched")
       ELSE /\ pc' = AfterMatch
            /\ page' = [page EXCEPT !.idx = NextIdx]
            /\ UNCHANGED <<call, data, now, result>>

ParseCardPage ==
    /\ pc = "scorecard_fetched"
    /\ ~IsErrorResult(data)
    /\ result' = parse_match_scorecard(data)
    /\ call' = "parse_match_scorecard"
    /\ pc' = IF result'.raised THEN "crashed" ELSE AfterMatch
    /\ page' = [page EXCEPT !.invoked = @ \cup {Invoked("parse_match_scorecard")},
                            !.idx = NextIdx]
    /\ UNCHANGED <<data, now>>

WarnScorecard ==
    /\ pc = "scorecard_fetched"
    /\ IsErrorResult(data)
    /\ page' = [page EXCEPT !.shown = @ \cup {"scorecard_warning"}, !.idx = NextIdx]
    /\ pc' = AfterMatch
    /\ UNCHANGED <<call, data, now, result>>

\* a widget interaction (the refresh button, the checkbox) reruns the script
Rerun ==
    /\ pc \in {"done", "crashed"}
    /\ pc' = "fetch_live"
    /\ call' = "page"
    /\ \E b \in BOOLEAN :
         page' = [show_detailed |-> b, matches |-> <<>>, idx |-> 0,
                  failed |-> FALSE, shown |-> {}, invoked |-> {}]
    /\ UNCHANGED <<data, now, result>>

NextPage ==
    \/ FetchLiveMatches \/ ShowApiError \/ ParseLivePage
    \/ MatchDetails \/ ParseScorePage \/ WarnScores
    \/ MatchScorecard \/ ParseCardPage \/ WarnScorecard
    \/ Rerun

SpecPage == InitPage /\ [][NextPage]_vars

----------------------------------------------------------------------------
(* Claims about parse_live_matches *)

\* The claims' notion of a qualifying node: a mapping that has a matchInfo
\* sub-mapping whose matchId is present and not null.
Qualifying(x) ==
    /\ IsDict(x)
    /\ HasKey(x, "matchInfo")
    /\ IsDict(Get(x, "matchInfo", Null))
    /\ HasKey(Get(x, "matchInfo", Null), "matchId")
    /\ Get(Get(x, "matchInfo", Null), "matchId", Null) # Null

RECURSIVE CountQualifying(_)
RECURSIVE CountQualifyingIn(_)
CountQualifyingIn(xs) ==
    IF xs = <<>> THEN 0 ELSE CountQualifying(Head(xs)) + CountQualifyingIn(Tail(xs))

CountQualifying(x) ==
    CASE x.t = "map" -> (IF Qualifying(x) THEN 1 ELSE 0) + CountQualifyingIn(Values(x))
      [] x.t = "list" -> CountQualifyingIn(x.xs)
      [] OTHER -> 0

LiveDone == pc = "done" /\ call = "parse_live_matches"

\* C1: for every input tree parse_live_matches returns exactly one record per
\* qualifying node of the tree (none when there is none, two for two
\* qualifying nodes with the same matchId).
C1_OneRecordPerQualifyingNode ==
    LiveDone => ~result.raised /\ Len(result.rows) = CountQualifying(data)

\* C2: a tree with exactly one qualifying node, at any depth, inside sequences
\* or under a top-level sequence, yields exactly one record.
C2_SingleQualifyingNodeYieldsOne ==
    (LiveDone /\ CountQualifying(data) = 1) => ~result.raised /\ Len(result.rows) = 1

\* C3: on every input each of the three parsers returns a value and never
\* raises.
C3_ParsersNeverRaise == pc = "done" => ~result.raised

\* the matchId of every qualifying node of the tree, depth first: a node ahead
\* of its descendants, a mapping's values in iteration order, a sequence's
\* elements in element order
RECURSIVE QualifyingIds(_)
RECURSIVE QualifyingIdsIn(_)
QualifyingIdsIn(xs) ==
    IF xs = <<>> THEN <<>> ELSE QualifyingIds(Head(xs)) \o QualifyingIdsIn(Tail(xs))

QualifyingIds(x) ==
    CASE x.t = "map" ->
            (IF Qualifying(x) THEN <<Get(Get(x, "matchInfo", Null), "matchId", Null)>>
             ELSE <<>>) \o QualifyingIdsIn(Values(x))
      [] x.t = "list" -> QualifyingIdsIn(x.xs)
      [] OTHER -> <<>>

\* the match_id column of the returned list
ReturnedIds == [i \in 1..Len(result.rows) |-> result.rows[i].match_id]

LiveReturned == LiveDone /\ ~result.raised /\ IsDict(data)

\* C11: the returned list holds the emissions in depth-first pre-order: a
\* node's own record ahead of its descendants' records, a mapping's values in
\* iteration order, a sequence's elements in element order; a node whose
\* matchId is missing or null contributes no record of its own but its
\* descendants are still traversed.
C11_PreOrderEmissions ==
    LiveReturned => ReturnedIds = SelectSeq(QualifyingIds(data), Truthy)

\* under a mapping without matchInfo, match 9 listed after its child sequence
\* of matches 7 and 8 comes out first
C11_Witness ==
    /\ LiveReturned
    /\ ~HasKey(data, "matchInfo")
    /\ HasKey(data, "matches")
    /\ ReturnedIds = <<Num(9), Num(7), Num(8)>>

\* C13: every returned MatchSummary carries a match_id that is not null, that
\* is the matchInfo.matchId of the node the record was built from, and that
\* passes the page's test "if match['match_id']"; no record with match_id
\* None is returned.
C13_MatchIdNeverNull ==
    (LiveDone /\ ~result.raised) =>
        LET built == SelectSeq(QualifyingIds(data), Truthy)
        IN  \A i \in 1..Len(result.rows) :
                /\ result.rows[i].match_id # Null
                /\ Truthy(result.rows[i].match_id)
                /\ IsDict(data) =>
                       /\ i <= Len(built)
                       /\ result.rows[i].match_id = built[i]

\* the one match of the tree comes back with its id 8
C13_Witness ==
    /\ LiveDone
    /\ ~result.raised
    /\ Len(result.rows) = 1
    /\ result.rows[1].match_id = Num(8)
    /\ result.rows[1].teams = Str("IND vs AUS")

----------------------------------------------------------------------------
(* Claims about parse_match_live_score *)

ScoreDone == pc = "done" /\ call = "parse_match_live_score"
ScoreReturnedDict == ScoreDone /\ ~result.raised /\ ~result.none

StringFields ==
    {"team1", "team2", "team1_score", "team2_score", "current_over", "status",
     "state", "toss", "venue", "series", "match_format", "result"}

\* C4 as claimed: None for every input that is not a mapping, and for {} a
\* LiveScore whose twelve string fields are all the empty string.
C4_EmptyMappingAllFieldsEmpty ==
    /\ (ScoreDone /\ ~IsDict(data)) => result = ScoreNone
    /\ (ScoreDone /\ data = EmptyMap) =>
          /\ ~result.raised /\ ~result.none
          /\ \A f \in StringFields : result.score[f] = EmptyStr

\* C4 amended: None for every input that is not a mapping, and for {} a
\* LiveScore whose string fields are empty except venue, which is " - ".
C4_EmptyMappingDefaults ==
    /\ (ScoreDone /\ ~IsDict(data)) => result = ScoreNone
    /\ (ScoreDone /\ data = EmptyMap) =>
          /\ ~result.raised /\ ~result.none
          /\ \A f \in StringFields \ {"venue"} : result.score[f] = EmptyStr
          /\ result.score.venue = Str(" - ")
          /\ result.score.match_id = Null

C4_Witness ==
    /\ ScoreDone /\ data = EmptyMap
    /\ ~result.raised /\ ~result.none
    /\ result.score.venue = Str(" - ")
    /\ result.score.team1_score = EmptyStr

\* the entries of miniscore.inningsScores, as the claim counts them
InningsScoresOf(d) ==
    LET ms == Get(d, "miniscore", EmptyMap)
    IN  IF IsDict(ms) /\ IsList(Get(ms, "inningsScores", EmptyList))
        THEN Get(ms, "inningsScores", EmptyList).xs
        ELSE <<>>

\* the text of field k of an innings entry, "0" when the entry lacks it
FieldOrZero(e, k) == IF HasKey(e, k) THEN PyStr(Get(e, k, Null)) ELSE "0"

ExpectedScore(e) ==
    Str(FieldOrZero(e, "runs") \o "/" \o FieldOrZero(e, "wickets") \o " ("
        \o FieldOrZero(e, "overs") \o " ov)")

\* C5: in a returned LiveScore team1_score is non-empty exactly when
\* miniscore.inningsScores has at least 1 entry and team2_score exactly when
\* it has at least 2; a filled score is "{runs}/{wickets} ({overs} ov)" of
\* entry 0 (team1) or entry 1 (team2) with 0 for each missing field; the
\* entry {runs: 120, wickets: 3, overs: 18.2} reads "120/3 (18.2 ov)".
C5_ScoreStrings ==
    ScoreReturnedDict =>
        LET scores == InningsScoresOf(data)
        IN  /\ (result.score.team1_score # EmptyStr) <=> (Len(scores) >= 1)
            /\ (result.score.team2_score # EmptyStr) <=> (Len(scores) >= 2)
            /\ Len(scores) >= 1 => result.score.team1_score = ExpectedScore(scores[1])
            /\ Len(scores) >= 2 => result.score.team2_score = ExpectedScore(scores[2])
            /\ (Len(scores) >= 1 /\ scores[1] = SpecExampleEntry)
                  => result.score.team1_score = Str("120/3 (18.2 ov)")

C5_Witness ==
    /\ ScoreReturnedDict
    /\ InningsScoresOf(data) = <<SpecExampleEntry>>
    /\ result.score.team1_score = Str("120/3 (18.2 ov)")
    /\ result.score.team2_score = EmptyStr

\* miniscore.overSummary of the input, Null when there is none to read
OverSummaryOf(d) ==
    LET ms == Get(d, "miniscore", EmptyMap)
    IN  IF IsDict(ms) THEN Get(ms, "overSummary", Null) ELSE Null

NonEmptyMapping(v) == IsDict(v) /\ v.kvs # <<>>

\* the text of field k of the over summary, dflt when the summary lacks it
FieldOr(os, k, dflt) == IF HasKey(os, k) THEN PyStr(Get(os, k, Null)) ELSE dflt

ExpectedOver(os) ==
    Str("Over " \o FieldOr(os, "overNum", "") \o ": " \o FieldOr(os, "runs", "0")
        \o " runs")

\* C12: in a returned LiveScore current_over is non-empty exactly when
\* miniscore.overSummary is a non-empty mapping; it then reads
\* "Over {overNum}: {runs} runs" built from that mapping, and is the empty
\* string otherwise.
C12_CurrentOver ==
    ScoreReturnedDict =>
        LET os == OverSummaryOf(data)
        IN  /\ (result.score.current_over # EmptyStr) <=> NonEmptyMapping(os)
            /\ NonEmptyMapping(os) => result.score.current_over = ExpectedOver(os)
            /\ ~NonEmptyMapping(os) => result.score.current_over = EmptyStr

\* over 14 with 9 runs is reported
C12_Witness ==
    /\ ScoreReturnedDict
    /\ OverSummaryOf(data) = Map(<<KV("overNum", Num(14)), KV("runs", Num(9))>>)
    /\ result.score.current_over = Str("Over 14: 9 runs")

----------------------------------------------------------------------------
(* Claims about parse_match_scorecard *)

CardDone == pc = "done" /\ call = "parse_match_scorecard"
CardReturnedRows == CardDone /\ ~result.raised

\* the innings of card.scoreCard, in source order
InningsOf(d) ==
    IF IsDict(d) /\ IsList(Get(d, "scoreCard", EmptyList))
    THEN Get(d, "scoreCard", EmptyList).xs
    ELSE <<>>

\* the entries of innings.<details>.<players>, in the mapping's iteration
\* order, each paired with its innings and its player-id key
EntriesOf(innings, details, players) ==
    LET dt == IF IsDict(innings) THEN Get(innings, details, EmptyMap) ELSE EmptyMap
        pl == IF IsDict(dt) THEN Get(dt, players, EmptyMap) ELSE EmptyMap
    IN  IF IsDict(pl)
        THEN [i \in 1..Len(pl.kvs) |->
                 [innings |-> innings, key |-> pl.kvs[i].k, entry |-> pl.kvs[i].v]]
        ELSE <<>>

RECURSIVE AllEntries(_, _, _)
AllEntries(inningsSeq, details, players) ==
    IF inningsSeq = <<>> THEN <<>>
    ELSE EntriesOf(Head(inningsSeq), details, players)
         \o AllEntries(Tail(inningsSeq), details, players)

\* rows is one row per entry of es, in order: row i carries entry i's name
\* and innings number, and no field of it holds the player-id key
RowsFollow(rows, es) ==
    /\ Len(rows) = Len(es)
    /\ \A i \in 1..Len(es) :
          /\ rows[i].player = Get(es[i].entry, "name", EmptyStr)
          /\ rows[i].innings = Get(es[i].innings, "inningsId", Num(0))
          /\ \A f \in DOMAIN rows[i] : rows[i][f] # Str(es[i].key)

\* C6 as claimed: the rows are the entries of battingTeamDetails.batsmenData
\* and bowlingTeamDetails.bowlersData, innings in source order, entries in
\* the mapping's iteration order, keys discarded.
C6_RowsFollowSpecKeys ==
    CardReturnedRows =>
        /\ RowsFollow(result.batting,
                      AllEntries(InningsOf(data), "battingTeamDetails", "batsmenData"))
        /\ RowsFollow(result.bowling,
                      AllEntries(InningsOf(data), "bowlingTeamDetails", "bowlersData"))

\* C6 amended: the rows are the entries of batTeamDetails.batsmenData and
\* bowlTeamDetails.bowlersData, innings in source order (not sorted by
\* innings number), entries in the mapping's iteration order, keys discarded.
C6_RowsFollowEntries ==
    CardReturnedRows =>
        /\ RowsFollow(result.batting,
                      AllEntries(InningsOf(data), "batTeamDetails", "batsmenData"))
        /\ RowsFollow(result.bowling,
                      AllEntries(InningsOf(data), "bowlTeamDetails", "bowlersData"))

\* two innings returned with innings 2 ahead of innings 1, two rows in the first
C6_Witness ==
    /\ CardReturnedRows
    /\ Len(InningsOf(data)) = 2
    /\ Len(result.batting) = 3 /\ Len(result.bowling) = 2
    /\ result.batting[1].innings = Num(2) /\ result.batting[3].innings = Num(1)
    /\ result.batting[1].player = Str("Rohit") /\ result.batting[2].player = Str("Kohli")

BatEntries == AllEntries(InningsOf(data), "batTeamDetails", "batsmenData")
BowlEntries == AllEntries(InningsOf(data), "bowlTeamDetails", "bowlersData")

\* Python == between two decoded JSON scalars: int and float compare by value.
PyEq(x, y) ==
    IF x.t \in {"int", "float"} /\ y.t \in {"int", "float"}
    THEN (IF x.t = "int" THEN 10 * x.n ELSE x.n) = (IF y.t = "int" THEN 10 * y.n ELSE y.n)
    ELSE x = y

\* row field f is entry key k when the entry has it, and equals dflt otherwise
FieldFrom(row, f, e, k, dflt) ==
    IF HasKey(e, k) THEN row[f] = Get(e, k, Null) ELSE PyEq(row[f], dflt)

\* C7: a batsman entry without outDesc gets status "not out", one with
\* outDesc gets that value; absent numeric fields are 0, and 0.0 for
\* strike_rate and economy.
C7_RowDefaults ==
    CardReturnedRows =>
        /\ Len(result.batting) = Len(BatEntries)
        /\ \A i \in 1..Len(BatEntries) :
              LET row == result.batting[i]
                  e == BatEntries[i].entry
              IN  /\ HasKey(e, "outDesc") => row.status = Get(e, "outDesc", EmptyStr)
                  /\ ~HasKey(e, "outDesc") => row.status = Str("not out")
                  /\ FieldFrom(row, "runs", e, "runs", Num(0))
                  /\ FieldFrom(row, "balls", e, "balls", Num(0))
                  /\ FieldFrom(row, "fours", e, "fours", Num(0))
                  /\ FieldFrom(row, "sixes", e, "sixes", Num(0))
                  /\ ~HasKey(e, "strikeRate") => row.strike_rate = Flt(0)
        /\ Len(result.bowling) = Len(BowlEntries)
        /\ \A i \in 1..Len(BowlEntries) :
              LET row == result.bowling[i]
                  e == BowlEntries[i].entry
              IN  /\ FieldFrom(row, "overs", e, "overs", Num(0))
                  /\ FieldFrom(row, "maidens", e, "maidens", Num(0))
                  /\ FieldFrom(row, "runs", e, "runs", Num(0))
                  /\ FieldFrom(row, "wickets", e, "wickets", Num(0))
                  /\ FieldFrom(row, "wides", e, "wides", Num(0))
                  /\ FieldFrom(row, "noballs", e, "noBalls", Num(0))
                  /\ ~HasKey(e, "economy") => row.economy = Flt(0)

\* one innings, one batsman entry without outDesc, returned as "not out"
C7_Witness ==
    /\ CardReturnedRows
    /\ Len(InningsOf(data)) = 1
    /\ Len(BatEntries) = 1
    /\ ~HasKey(BatEntries[1].entry, "outDesc")
    /\ result.batting[1].status = Str("not out")
    /\ result.batting[1].runs = Num(0)
    /\ result.batting[1].strike_rate = Flt(0)

\* C9: ([], []) whenever the input is not a mapping, has no scoreCard key, or
\* has the empty sequence as scoreCard.
C9_EmptyScorecard ==
    (CardDone /\ (\/ ~IsDict(data)
                  \/ ~HasKey(data, "scoreCard")
                  \/ Get(data, "scoreCard", Null) = EmptyList))
       => result = CardReturned(<<>>, <<>>)

C9_Witness ==
    /\ CardDone
    /\ IsDict(data) /\ HasKey(data, "matchId") /\ ~HasKey(data, "scoreCard")
    /\ result = CardReturned(<<>>, <<>>)

----------------------------------------------------------------------------
(* Claims about the live-matches page *)

\* C8: no parser is ever invoked on the result of a fetch that failed (the
\* fetch function caught an exception and returned its error sentinel).
C8_NoParserOnFailedFetch == \A i \in page.invoked : ~i.failed

====
